---- MODULE Spec2Model ----
(***************************************************************************)
(* Epicycle (src/learn_01/main.py): the Fourier-epicycle pipeline          *)
(*   generate_polygon_points -> resample_polygon_points ->                 *)
(*   fft_sample_points -> animate_polygon_points / animate_circles.        *)
(*                                                                         *)
(* Numbers.  The program computes in complex double precision.  The model  *)
(* computes exactly, on inputs for which the exact values are lattice      *)
(* points: a complex number is a 4-tuple <<a0, a1, a2, a3>> of integers    *)
(* standing for a0 + a1*w + a2*w^2 + a3*w^3 with w = exp(i*pi/4), so       *)
(* w^2 = i and w^4 = -1; x + iy is <<x, 0, y, 0>>.  Angles are counted in  *)
(* units of pi/4 (Turn units make 2*pi).  A magnitude abs(z) is held as    *)
(* its square, which orders the same way.                                  *)
(***************************************************************************)
EXTENDS Integers, Sequences, FiniteSets, TLC

VARIABLES
    stage,            \* which routine this run exercises, and where it stands
    n_polygon_points, \* generate_polygon_points: argument
    z,                \* generate_polygon_points: the drawn points
    polygon_points,   \* generate_polygon_points: outcome
    points,           \* resample_polygon_points: argument
    n_sample_points,  \* resample_polygon_points: argument
    resampled,        \* resample_polygon_points: outcome
    sample_points,    \* fft_sample_points: argument
    n_fft_points,     \* fft_sample_points: argument
    idx,              \* fft_sample_points: the ranking (local idx)
    fft_points,       \* fft_sample_points: returned reconstruction
    radius,           \* component radii (squared), rank order
    theta,            \* component phases, rank order
    speed,            \* component angular speeds, rank order
    anim,             \* "circles" (animate_circles) or "polygon" (animate_polygon_points)
    orig,             \* origin of the chain
    n_frames,         \* frames / n_frames argument
    frame,            \* next frame index of the frame source
    pending,          \* frame yielded by frame_gen and not yet drawn, or -1
    drawn,            \* the frame argument of the last update, or -1
    running,          \* the animation still advances frames
    circles,          \* circles[i]: centre of circle i as last drawn
    lines,            \* lines[i]: <<start, end>> of arrow i as last drawn
    theta_i,          \* update: the angle used for component i in the last frame
    trace_points      \* the trace

genVars   == <<n_polygon_points, z, polygon_points>>
resVars   == <<points, n_sample_points, resampled>>
fftVars   == <<sample_points, n_fft_points, idx, fft_points>>
chainVars == <<radius, theta, speed>>
animVars  == <<anim, orig, n_frames, frame, pending, drawn, running, circles, lines,
               theta_i, trace_points>>
vars == <<stage, genVars, resVars, fftVars, chainVars, animVars>>

----------------------------------------------------------------------------
(* Bounds of the model *)

MaxCoord == 1
MaxFft == 4
MaxFrames == 10
MaxPoly == 3
MaxDraw == 2
MaxVerts == 3
MaxSamples == 3

\* Sample counts for which the discrete Fourier transform of lattice points
\* is again a lattice point (the twiddle factors are powers of i).
SampleLens == {1, 2, 4}

----------------------------------------------------------------------------
(* Exact complex arithmetic *)

Turn == 8

Cx(re, im) == <<re, 0, im, 0>>
Zero == Cx(0, 0)
Re(u) == u[1]
Im(u) == u[3]
Add(u, v) == <<u[1] + v[1], u[2] + v[2], u[3] + v[3], u[4] + v[4]>>
Sub(u, v) == <<u[1] - v[1], u[2] - v[2], u[3] - v[3], u[4] - v[4]>>
Scale(n, u) == <<n * u[1], n * u[2], n * u[3], n * u[4]>>

\* u * exp(i*pi/4)
RotOnce(u) == <<-u[4], u[1], u[2], u[3]>>

\* u * exp(i * a) for an angle of a units: a % Turn turns by pi/4, and
\* four of them make -1
Rot(u, a) ==
    LET m == a % Turn
        h == IF m >= 4 THEN Scale(-1, u) ELSE u
        q == m % 4
    IN  IF q = 0 THEN h
        ELSE IF q = 1 THEN RotOnce(h)
        ELSE IF q = 2 THEN RotOnce(RotOnce(h))
        ELSE RotOnce(RotOnce(RotOnce(h)))

\* abs(u)^2 of a lattice point x + iy
Abs2(u) == Re(u) * Re(u) + Im(u) * Im(u)

RECURSIVE SumUpTo(_, _)
SumUpTo(s, n) == IF n = 0 THEN Zero ELSE Add(s[n], SumUpTo(s, n - 1))
SumSeq(s) == SumUpTo(s, Len(s))

\* the function f on 1..n as a tuple, its elements computed once
List(f) == SubSeq(f, 1, Len(f))

Take(s, k) == SubSeq(s, 1, IF k < Len(s) THEN k ELSE Len(s))

\* what a call ends with: a returned array, held as numerators num over a
\* common positive real denominator (den its square, or den itself), an
\* array of NaN, or an exception
Returned(num, den) == [kind |-> "returned", error |-> "", num |-> num, den |-> den]
ReturnedNaN(n) == [kind |-> "nan", error |-> "", num |-> [j \in 1..n |-> Zero], den |-> 0]
Raised(e) == [kind |-> "raised", error |-> e, num |-> <<>>, den |-> 0]
NotCalled == [kind |-> "none", error |-> "", num |-> <<>>, den |-> 0]

----------------------------------------------------------------------------
(* fft_sample_points *)

\* np.fft.fftfreq(n)[j] * n, j counted from 0
FftFreq(n, j) == IF j <= (n - 1) \div 2 THEN j ELSE j - n

\* 2 * pi * f / n in units of pi/4
SpeedOfNeg(f, n) == - (Turn \div n) * f
SpeedOf(f, n) == (Turn \div n) * f

\* np.fft.fft(s)[k], k counted from 0: sum_n s[n] * exp(-2*pi*i*k*n/N)
DftPlus(s, k) ==
    SumSeq([n \in 1..Len(s) |-> Rot(s[n], (Turn \div Len(s)) * k * (n - 1))])
Dft(s, k) ==
    SumSeq([n \in 1..Len(s) |-> Rot(s[n], - (Turn \div Len(s)) * k * (n - 1))])

\* np.fft.fft(sample_points) / n_sample_points, as numerators over the
\* common denominator n_sample_points
FftValues(s) == List([k \in 1..Len(s) |-> Dft(s, k - 1)])

\* the permutations of 1..n, tabulated for the sample counts in use
PermTable ==
    [n \in 0..5 |-> {p \in [1..n -> 1..n] : \A a, b \in 1..n : p[a] = p[b] => a = b}]
Perms(n) == PermTable[n]

\* np.argsort(keys): a permutation putting keys in non-decreasing order.  The
\* default kind is not stable, so every such permutation is a possible result.
ArgSort(keys) ==
    UNION {{p \in Perms(Len(k)) : \A a \in 1..(Len(k) - 1) : k[p[a]] <= k[p[a + 1]]} :
              k \in {keys}}

\* a[::-1]
ReverseNot(a) == a
Reverse(a) == List([j \in 1..Len(a) |-> a[Len(a) + 1 - j]])

\* the phase np.angle(c) of coefficient c, advanced by off units
Angle(c) == [base |-> c, off |-> 0]
AngleAdd(a, d) == [base |-> a.base, off |-> a.off + d]

\* r * np.exp(1j * a), r = abs(c) and a = np.angle(c) + off: c turned by off
Polar(r, a) == Rot(a.base, a.off)

\* lines 405-411 for the ranked and truncated fft_values and speed
Reconstruct(vals, spd, n) ==
    LET pt(t) == SumSeq([j \in 1..Len(vals) |-> Rot(vals[j], spd[j] * t)])
        body  == List([t \in 1..n |-> pt(t - 1)])
    IN  IF n = 0 THEN <<>> ELSE Append(body, body[1])

\* the whole of fft_sample_points, for the ranking order = argsort(...)[::-1]
FftSamplePoints(s, k, order) ==
    LET n    == Len(s)
        all  == FftValues(s)
        vals == Take([j \in 1..n |-> all[order[j]]], k)
        spd  == Take([j \in 1..n |-> SpeedOf(FftFreq(n, order[j] - 1), n)], k)
    IN  [fft_points |-> Reconstruct(vals, spd, n),
         radius     |-> List([j \in 1..Len(vals) |-> Abs2(vals[j])]),
         theta      |-> List([j \in 1..Len(vals) |-> Angle(vals[j])]),
         speed      |-> spd]

Rankings(s) ==
    LET all == FftValues(s)
    IN  {Reverse(p) : p \in ArgSort(List([j \in 1..Len(s) |-> Abs2(all[j])]))}

----------------------------------------------------------------------------
(* Inputs *)

\* sample values: the integers within MaxCoord on the real axis, and +-i
Coords == {Cx(x, 0) : x \in -MaxCoord..MaxCoord} \cup {Cx(0, 1), Cx(0, -1)}

SamplePaths == UNION {[1..n -> Coords] : n \in SampleLens}

NoGen  == /\ n_polygon_points = 0 /\ z = <<>> /\ polygon_points = NotCalled
NoRes  == /\ points = <<>> /\ n_sample_points = 0 /\ resampled = NotCalled
NoAnim == /\ anim = "none" /\ orig = Zero /\ n_frames = 0 /\ frame = 0
          /\ pending = -1 /\ drawn = -1 /\ running = FALSE
          /\ circles = <<>> /\ lines = <<>>
          /\ theta_i = <<>> /\ trace_points = <<>>

----------------------------------------------------------------------------
(* Specification of fft_sample_points on its own *)

InitFft ==
    /\ stage = "fft_call"
    /\ sample_points \in SamplePaths
    /\ n_fft_points \in 0..MaxFft
    /\ idx = <<>> /\ fft_points = <<>>
    /\ radius = <<>> /\ theta = <<>> /\ speed = <<>>
    /\ NoGen /\ NoRes /\ NoAnim

CallFftSamplePoints ==
    /\ stage = "fft_call"
    /\ \E order \in Rankings(sample_points) :
          \E r \in {FftSamplePoints(sample_points, n_fft_points, order)} :
              /\ idx' = order
              /\ fft_points' = r.fft_points
              /\ radius' = r.radius
              /\ theta' = r.theta
              /\ speed' = r.speed
    /\ stage' = "fft_done"
    /\ UNCHANGED <<sample_points, n_fft_points, genVars, resVars, animVars>>

NextFft == CallFftSamplePoints

SpecFft == InitFft /\ [][NextFft]_vars

----------------------------------------------------------------------------
(* Claims about fft_sample_points *)

FftDone == stage = "fft_done"

\* abs(fft_values) in frequency-index order, for the samples of this call
Magnitudes ==
    LET all == FftValues(sample_points)
    IN  List([j \in 1..Len(sample_points) |-> Abs2(all[j])])

\* C1 as stated: the retained coefficients are in non-increasing magnitude
\* and, of two retained coefficients of equal magnitude, the one with the
\* lower original DFT index comes first (a stable descending sort).
C1_StableDescending ==
    FftDone =>
        \A a, b \in 1..Len(radius) :
            a < b => /\ radius[a] >= radius[b]
                     /\ (radius[a] = radius[b] => idx[a] < idx[b])

\* C1 as amended: the ranking is a permutation of the frequency indices, the
\* retained radii are the magnitudes of the coefficients it names, and they
\* are in non-increasing order; the order among equal magnitudes is left open.
C1_Descending ==
    FftDone =>
        /\ idx \in Perms(Len(sample_points))
        /\ Len(radius) = (IF n_fft_points < Len(sample_points)
                          THEN n_fft_points ELSE Len(sample_points))
        /\ \A a \in 1..Len(radius) : radius[a] = Magnitudes[idx[a]]
        /\ \A a, b \in 1..Len(radius) : a < b => radius[a] >= radius[b]

\* two retained coefficients of equal non-zero magnitude, ranked
C1_Witness ==
    /\ FftDone
    /\ \E a, b \in 1..Len(radius) : a < b /\ radius[a] = radius[b] /\ radius[a] > 0
    /\ \E a, b \in 1..Len(radius) : radius[a] > radius[b]

\* C4: with n_fft_points = N the reconstruction at the N sample indices is
\* the sample sequence itself (fft_points holds numerators over N).
C4_RoundTrip ==
    (FftDone /\ n_fft_points = Len(sample_points)) =>
        \A t \in 1..Len(sample_points) :
            fft_points[t] = Scale(Len(sample_points), sample_points[t])

\* the run on S = [1, i, -1, -i] with k = N = 4
C4_Witness ==
    /\ FftDone
    /\ n_fft_points = 4
    /\ sample_points = <<Cx(1, 0), Cx(0, 1), Cx(-1, 0), Cx(0, -1)>>
    /\ radius = <<16, 0, 0, 0>>

\* sum over the sample indices of the squared distance between the sample
\* and the reconstruction pts (both as numerators over N)
SquaredError(s, pts) ==
    LET d(t) == Sub(Scale(Len(s), s[t]), pts[t])
        RECURSIVE upto(_)
        upto(t) == IF t = 0 THEN 0 ELSE Abs2(d(t)) + upto(t - 1)
    IN  upto(Len(s))

\* C5: for the samples and the ranking of this call, the error of the
\* reconstruction from the top n_fft_points components is at most the error
\* of the reconstruction from the top k1 components, for every k1 <= n_fft_points.
C5_ErrorMonotone ==
    FftDone =>
        \A k1 \in 0..n_fft_points :
            SquaredError(sample_points, fft_points)
              <= SquaredError(sample_points,
                     FftSamplePoints(sample_points, k1, idx).fft_points)

\* a call that keeps some but not all components, with a strictly smaller
\* error than the empty chain and a non-zero error left
C5_Witness ==
    /\ FftDone
    /\ 0 < n_fft_points /\ n_fft_points < Len(sample_points)
    /\ 0 < SquaredError(sample_points, fft_points)
    /\ SquaredError(sample_points, fft_points)
         < SquaredError(sample_points,
               FftSamplePoints(sample_points, 0, idx).fft_points)

----------------------------------------------------------------------------
(* The animations: animate_circles and animate_polygon_points *)

\* get_circle_points(center, radius): the circle drawn, by centre and radius
GetCirclePoints(center, r) == [set |-> TRUE, center |-> center, radius |-> r]

\* get_arrow_points(center, radius, theta): start and end of the arrow
GetArrowPoints(center, r, a) ==
    [set |-> TRUE, start |-> center, end |-> Add(center, Polar(r, a))]

\* an artist made by ax.plot([], []): no data yet
EmptyCircle == [set |-> FALSE, center |-> Zero, radius |-> 0]
EmptyLine   == [set |-> FALSE, start |-> Zero, end |-> Zero]

\* x * 0.5, for the even x that occur (every speed is an even number of units)
Half(x) == x \div 2

\* theta_i of animate_circles.update (line 329)
FrameAngleCirclesHalf(t, s, f) == AngleAdd(t, Half(s * f))
FrameAngleCircles(t, s, f) == AngleAdd(t, s * f)

\* theta_i of animate_polygon_points.update (line 475)
FrameAnglePolygon(t, s, f) == AngleAdd(t, Half(s * f))

FrameAngle(a, t, s, f) ==
    IF a = "circles" THEN FrameAngleCircles(t, s, f) ELSE FrameAnglePolygon(t, s, f)

\* the loop "for r, t(, s) in zip(...): ... center += r * np.exp(1j * angle)":
\* the value of center at the head of iteration i, i+1, ..., and after the loop
RECURSIVE WalkLate(_, _, _, _)
WalkLate(center, rs, as, i) ==
    IF i > Len(rs) THEN <<center>>
    ELSE <<Add(center, Polar(rs[i], as[i]))>>
           \o WalkLate(Add(center, Polar(rs[i], as[i])), rs, as, i + 1)
RECURSIVE Walk(_, _, _, _)
Walk(center, rs, as, i) ==
    IF i > Len(rs) THEN <<center>>
    ELSE <<center>> \o Walk(Add(center, Polar(rs[i], as[i])), rs, as, i + 1)

\* np.abs(a - b) < 1e-10.  Distinct values of the model are lattice points
\* much further apart than 1e-10, and equal ones are computed by the program
\* to within rounding: the test is equality.
Near(a, b) == a = b

\* the loop-closure test on trace tr for the point p
LoopClosedLate(tr, p) == Len(tr) > 3 /\ Near(p, tr[1])
LoopClosed(tr, p) == Len(tr) > 2 /\ Near(p, tr[1])

\* values of the frames / n_frames argument
FrameCounts == {0, 3, MaxFrames}

\* sample values of the animated paths
AnimCoords == {Cx(x, 0) : x \in 0..MaxCoord} \cup {Cx(0, 1)}
AnimPaths == UNION {[1..n -> AnimCoords] : n \in SampleLens}

\* The state when FuncAnimation has been constructed: the chain is the one
\* fft_sample_points returns, no artist and no trace point exists yet.
InitAnim ==
    /\ stage = "anim_init"
    /\ sample_points \in AnimPaths
    /\ n_fft_points \in 0..MaxFft
    /\ \E order \in Rankings(sample_points) :
         \E r \in {FftSamplePoints(sample_points, n_fft_points, order)} :
            /\ idx = order
            /\ fft_points = r.fft_points
            /\ radius = r.radius
            /\ theta = r.theta
            /\ speed = r.speed
    /\ \/ anim = "polygon" /\ orig = Zero
       \/ anim = "circles" /\ orig \in {Zero, Cx(1, 1)}
    /\ n_frames \in FrameCounts
    /\ frame = 0 /\ pending = -1 /\ drawn = -1 /\ running = TRUE
    /\ circles = <<>> /\ lines = <<>> /\ theta_i = <<>> /\ trace_points = <<>>
    /\ NoGen /\ NoRes

\* init_func (lines 310-322 and 452-463)
InitFunc ==
    /\ stage = "anim_init"
    /\ \E cs \in {Walk(orig, radius, theta, 1)} :
          /\ circles' = circles \o [j \in 1..Len(radius) |-> EmptyCircle]
          /\ lines' = lines \o [j \in 1..Len(radius) |-> EmptyLine]
          /\ trace_points' = <<cs[Len(radius) + 1]>>
    /\ stage' = "anim_run"
    /\ UNCHANGED <<genVars, resVars, fftVars, chainVars, anim, orig, n_frames,
                   frame, pending, drawn, running, theta_i>>

\* trace_points.append(center)
TraceKeepLast(tr, p) == <<p>>
TraceAppend(tr, p) == Append(tr, p)

\* the body of update(f) up to the closure test: the artists, the angles and
\* the terminal point of frame f
DrawFrame(f) ==
    \E as \in {List([j \in 1..Len(radius) |-> FrameAngle(anim, theta[j], speed[j], f)])} :
    \E cs \in {Walk(orig, radius, as, 1)} :
        /\ circles' = List([j \in 1..Len(radius) |-> GetCirclePoints(cs[j], radius[j])])
        /\ lines' = List([j \in 1..Len(radius) |-> GetArrowPoints(cs[j], radius[j], as[j])])
        /\ theta_i' = as
        /\ drawn' = f
        /\ running' = IF anim = "circles" /\ LoopClosed(trace_points, cs[Len(radius) + 1])
                      THEN FALSE ELSE running
        /\ trace_points' = TraceAppend(trace_points, cs[Len(radius) + 1])

\* animate_circles: the timer takes the next frame of range(frames) and calls
\* update (lines 324-339)
CanUpdateCircles ==
    stage = "anim_run" /\ anim = "circles" /\ running /\ frame < n_frames
UpdateCircles ==
    /\ CanUpdateCircles
    /\ DrawFrame(frame)
    /\ frame' = frame + 1
    /\ UNCHANGED <<stage, genVars, resVars, fftVars, chainVars, anim, orig,
                   n_frames, pending>>

\* animate_circles: range(frames) is exhausted and repeat is False
FramesExhausted ==
    /\ stage = "anim_run" /\ anim = "circles" /\ running
    /\ frame >= n_frames
    /\ running' = FALSE
    /\ UNCHANGED <<stage, genVars, resVars, fftVars, chainVars, anim, orig,
                   n_frames, frame, pending, drawn, circles, lines, theta_i,
                   trace_points>>

\* frame_gen looping without the bound of range(n_frames)
CanFrameGenYieldUnbounded ==
    /\ stage = "anim_run" /\ anim = "polygon" /\ running /\ pending = -1
    /\ ~ LoopClosed(trace_points, trace_points[Len(trace_points)])

\* animate_polygon_points: frame_gen is resumed (lines 465-469) and yields
CanFrameGenYield ==
    /\ stage = "anim_run" /\ anim = "polygon" /\ running /\ pending = -1
    /\ frame < n_frames
    /\ ~ LoopClosed(trace_points, trace_points[Len(trace_points)])
FrameGenYield ==
    /\ CanFrameGenYield
    /\ pending' = frame
    /\ frame' = frame + 1
    /\ UNCHANGED <<stage, genVars, resVars, fftVars, chainVars, anim, orig,
                   n_frames, drawn, running, circles, lines, theta_i, trace_points>>

\* animate_polygon_points: frame_gen is resumed and ends, by break or because
\* range(n_frames) is exhausted
FrameGenStop ==
    /\ stage = "anim_run" /\ anim = "polygon" /\ running /\ pending = -1
    /\ \/ frame >= n_frames
       \/ LoopClosed(trace_points, trace_points[Len(trace_points)])
    /\ running' = FALSE
    /\ UNCHANGED <<stage, genVars, resVars, fftVars, chainVars, anim, orig,
                   n_frames, frame, pending, drawn, circles, lines, theta_i,
                   trace_points>>

\* animate_polygon_points: update is called with the frame yielded (lines 471-485)
CanUpdatePolygon ==
    stage = "anim_run" /\ anim = "polygon" /\ pending # -1
UpdatePolygon ==
    /\ CanUpdatePolygon
    /\ DrawFrame(pending)
    /\ pending' = -1
    /\ UNCHANGED <<stage, genVars, resVars, fftVars, chainVars, anim, orig,
                   n_frames, frame>>

NextAnim ==
    \/ InitFunc
    \/ UpdateCircles
    \/ FramesExhausted
    \/ FrameGenYield
    \/ FrameGenStop
    \/ UpdatePolygon

SpecAnim == InitAnim /\ [][NextAnim]_vars

----------------------------------------------------------------------------
(* Claims about the animations *)

Last(tr) == tr[Len(tr)]
Drawn == stage = "anim_run" /\ drawn # -1

\* component i's contribution radius_i * exp(i * angle) for the angle
\* phase_i + off units
Contribution(i, off) == Rot(theta[i].base, off)

\* arrows and terminal point of the last frame use, for every component, the
\* angle phase_i + offs[i]
UsesAngles(offs) ==
    /\ Len(theta_i) = Len(radius)
    /\ \A i \in 1..Len(radius) :
          /\ theta_i[i].base = theta[i].base
          /\ theta_i[i].off = theta[i].off + offs[i]
          /\ lines[i].end = Add(lines[i].start, Contribution(i, offs[i]))
    /\ Last(trace_points)
         = Add(orig, SumSeq([i \in 1..Len(radius) |-> Contribution(i, offs[i])]))

\* C2 as stated: in both animations the angle of component i at frame t is
\* phase_i + speed_i * t, for its arrow and for its share of the terminal point.
C2_AngleIsPhasePlusSpeedT ==
    Drawn => UsesAngles([i \in 1..Len(radius) |-> speed[i] * drawn])

\* the offsets from the phases of the angles used in the last frame
UsedOffsets == [i \in 1..Len(theta_i) |-> theta_i[i].off - theta[i].off]

\* C2 as amended: animate_circles.update uses phase_i + speed_i * t and
\* animate_polygon_points.update uses phase_i + speed_i * t * 0.5.
C2_AnglePerAnimation ==
    Drawn =>
        /\ UsesAngles(UsedOffsets)
        /\ \A i \in 1..Len(radius) :
              IF anim = "circles" THEN UsedOffsets[i] = speed[i] * drawn
              ELSE 2 * UsedOffsets[i] = speed[i] * drawn

\* a frame after the first, drawn by animate_circles for a chain with a
\* turning component of non-zero radius
C2_Witness ==
    /\ Drawn /\ anim = "circles" /\ drawn >= 1
    /\ \E i \in 1..Len(radius) : speed[i] # 0 /\ radius[i] > 0

\* C3: (1) an update of animate_circles that finds more than 2 points in the
\* trace and its terminal point at the first recorded point stops the
\* animation; (2) when frame_gen of animate_polygon_points is resumed with more
\* than 2 points in the trace and the last at the first, it ends without a
\* frame; (3) once stopped, no step changes the trace or hands out a frame;
\* (4) the animation stops only on such a closure or with the frame count used up;
\* (5) while it runs with frames left and no closure, the next frame or its
\* update can be taken.
C3_StepRule ==
    stage = "anim_run" =>
        /\ (anim = "circles" /\ frame' = frame + 1 /\ Len(trace_points) > 2
              /\ Last(trace_points') = trace_points[1]) => ~ running'
        /\ (anim = "polygon" /\ pending = -1 /\ Len(trace_points) > 2
              /\ Last(trace_points) = trace_points[1])
              => (~ running' /\ trace_points' = trace_points /\ pending' = pending)
        /\ ~ running => /\ ~ running'
                        /\ trace_points' = trace_points
                        /\ \/ pending' = pending
                           \/ pending' = -1
                        /\ frame' = frame
        /\ (running /\ ~ running') =>
              \/ frame >= n_frames /\ trace_points' = trace_points
              \/ anim = "circles" /\ Len(trace_points) > 2
                   /\ Last(trace_points') = trace_points[1]
              \/ anim = "polygon" /\ Len(trace_points) > 2
                   /\ Last(trace_points) = trace_points[1]
                   /\ trace_points' = trace_points
C3_NotWithheld ==
    (stage = "anim_run" /\ running /\ frame < n_frames
       /\ ~ (anim = "polygon" /\ pending = -1 /\ Len(trace_points) > 2
               /\ Last(trace_points) = trace_points[1]))
    => (CanUpdateCircles \/ CanFrameGenYield \/ CanUpdatePolygon)
C3_LoopClosure == [][C3_StepRule]_vars /\ []C3_NotWithheld

\* an animation stopped by closure with frames left, after a trace that left
\* its first point
C3_Witness ==
    /\ stage = "anim_run" /\ ~ running /\ frame < n_frames
    /\ Len(trace_points) > 3
    /\ Last(trace_points) = trace_points[1]
    /\ \E t \in 1..Len(trace_points) : trace_points[t] # trace_points[1]

\* C9: in the frame last drawn, circle i and the start of arrow i are at the
\* origin plus the contributions of components 1..i-1, the end of arrow i is
\* the centre of circle i+1 (the terminal point for the last), the point
\* appended to the trace is the origin plus all contributions; and for an
\* empty chain every trace point is the origin.
C9_Chain ==
    stage = "anim_run" =>
        /\ Len(radius) = 0 => \A t \in 1..Len(trace_points) : trace_points[t] = orig
        /\ drawn # -1 =>
             LET c(j) == Contribution(j, theta_i[j].off - theta[j].off)
                 upto(i) == Add(orig, SumSeq([j \in 1..i |-> c(j)]))
             IN  /\ Len(circles) = Len(radius) /\ Len(lines) = Len(radius)
                 /\ \A i \in 1..Len(radius) :
                       /\ circles[i].set /\ lines[i].set
                       /\ circles[i].center = upto(i - 1)
                       /\ circles[i].radius = radius[i]
                       /\ lines[i].start = upto(i - 1)
                       /\ lines[i].end = IF i < Len(radius)
                                         THEN circles[i + 1].center
                                         ELSE Last(trace_points)
                 /\ Last(trace_points) = upto(Len(radius))

\* a frame after the first of a chain of three components whose second
\* circle is off the origin
C9_Witness ==
    /\ Drawn /\ drawn >= 1 /\ Len(radius) >= 3
    /\ circles[2].center # orig /\ circles[3].center # circles[2].center
    /\ Last(trace_points) # circles[3].center

\* the steps that are one call of update
IsUpdate ==
    \/ anim = "circles" /\ frame' = frame + 1
    \/ anim = "polygon" /\ pending # -1 /\ pending' = -1

\* C10: after init_func, a step changes the trace only if it is an update;
\* an update appends exactly one point and keeps the earlier entries; no
\* step changes the component lists or the origin.
C10_StepRule ==
    stage = "anim_run" =>
        /\ <<radius, theta, speed, orig>>' = <<radius, theta, speed, orig>>
        /\ trace_points' # trace_points => IsUpdate
        /\ IsUpdate =>
              /\ Len(trace_points') = Len(trace_points) + 1
              /\ SubSeq(trace_points', 1, Len(trace_points)) = trace_points
C10_OnlyTraceGrows == [][C10_StepRule]_vars

\* three frames drawn, the trace holding the initial point and one per frame,
\* not all the same
C10_Witness ==
    /\ Drawn /\ drawn = 2 /\ Len(trace_points) = 4
    /\ trace_points[3] # trace_points[4]

-----------------------------------------------------------------------------
(* animate_polygon_points driven to its end by ani.save *)

\* ani.save (line 499) runs the animation in the calling thread: it calls
\* init_func, then takes the frames of frame_gen() one by one, calling update
\* with each, until the generator ends.  No step that is possible is put off
\* for ever, hence the weak fairness.
\* The paths animated here are those of InitAnim whose samples are 0 or
\* MaxCoord.
InitFrameGen ==
    /\ InitAnim
    /\ anim = "polygon"
    /\ \A j \in 1..Len(sample_points) :
          sample_points[j] \in {Zero, Cx(MaxCoord, 0)}

NextFrameGen ==
    \/ InitFunc
    \/ FrameGenYield
    \/ FrameGenStop
    \/ UpdatePolygon

SpecFrameGen ==
    InitFrameGen /\ [][NextFrameGen]_vars /\ WF_vars(NextFrameGen)

\* the generator hands out a frame index in this step
Yields == pending = -1 /\ pending' # -1

\* the number of indices the generator has handed out so far: each one
\* handed out and drawn has added one point to the trace of init_func
Yielded == IF pending # -1 THEN Len(trace_points) ELSE Len(trace_points) - 1

\* the generator has ended
Stopped == stage = "anim_run" /\ ~ running

C11_StepRule ==
    /\ Yields => pending' = Len(trace_points) - 1 /\ pending' < n_frames
    /\ Stopped => Stopped' /\ ~ Yields /\ trace_points' = trace_points

C11_Bounded ==
    stage = "anim_run" =>
        /\ Yielded <= n_frames
        /\ Len(trace_points) <= n_frames + 1
        /\ Stopped => pending = -1

\* C11: frame_gen of animate_polygon_points always ends; the indices it
\* yields are 0, 1, 2, ... in order and without gaps, each the number of
\* indices yielded before it; it yields at most n_frames of them; once it has
\* ended it yields nothing more, and the trace never holds more than
\* n_frames + 1 points.
C11_FrameGenTerminates ==
    /\ [][C11_StepRule]_vars
    /\ []C11_Bounded
    /\ <>Stopped

\* the generator has ended by running out of range(n_frames), the loop never
\* having closed: every one of the n_frames indices was yielded and drawn
C11_Witness ==
    /\ Stopped /\ anim = "polygon" /\ n_frames > 0
    /\ Len(trace_points) = n_frames + 1
    /\ drawn = n_frames - 1
    /\ ~ LoopClosed(trace_points, trace_points[Len(trace_points)])

----------------------------------------------------------------------------
(* generate_polygon_points *)

\* np.random.randint(-10, 10), low inclusive and high exclusive: the draws
\* modelled have a real part within MaxDraw and an imaginary part of -1 or 0
DrawCoords == {Cx(x, y) : x \in -MaxDraw..(MaxDraw - 1), y \in {-1, 0}}

Cross(u, v) == Re(u) * Im(v) - Im(u) * Re(v)

\* where np.angle(u) lies: 1 for (-pi, 0), 2 for 0 (u = 0 included), 3 for
\* (0, pi), 4 for pi
Sector(u) ==
    IF Im(u) < 0 THEN 1
    ELSE IF Im(u) > 0 THEN 3
    ELSE IF Re(u) >= 0 THEN 2 ELSE 4

\* np.angle(u) < np.angle(v)
AngleLessNoSector(u, v) == Cross(u, v) > 0
AngleLess(u, v) ==
    \/ Sector(u) < Sector(v)
    \/ Sector(u) = Sector(v) /\ Sector(u) \in {1, 3} /\ Cross(u, v) > 0

\* z - z.mean(), as numerators over len(z)
Shifted(zz) ==
    LET total == SumSeq(zz)
    IN  List([j \in 1..Len(zz) |-> Sub(Scale(Len(zz), zz[j]), total)])

\* np.angle(z_shifted) as sort keys: the number of points of smaller angle
AngleKeys(w) ==
    List([j \in 1..Len(w) |-> Cardinality({i \in 1..Len(w) : AngleLess(w[i], w[j])})])

\* the results np.argsort(angles) may give
AngleOrders(zz) == ArgSort(AngleKeys(Shifted(zz)))

Max(S) == CHOOSE m \in S : \A x \in S : x <= m

\* lines 359-367 for the drawn points zz and order = np.argsort(angles)
GeneratePolygonPoints(zz, order) ==
    IF Len(zz) = 0 THEN Raised("IndexError")      \* z_order[0] of an empty array
    ELSE LET w      == Shifted(zz)
             sorted == List([j \in 1..Len(zz) |-> w[order[j]]])
             closed == Append(sorted, sorted[1])
             den    == Max({Abs2(closed[j]) : j \in 1..Len(closed)})
         IN  IF den = 0 THEN ReturnedNaN(Len(closed))   \* 0 / 0
             ELSE Returned(closed, den)

InitGen ==
    /\ stage = "gen_call"
    /\ n_polygon_points \in 0..MaxPoly
    /\ z = <<>> /\ polygon_points = NotCalled
    /\ idx = <<>> /\ fft_points = <<>> /\ sample_points = <<>> /\ n_fft_points = 0
    /\ radius = <<>> /\ theta = <<>> /\ speed = <<>>
    /\ NoRes /\ NoAnim

CallGeneratePolygonPoints ==
    /\ stage = "gen_call"
    /\ \E zz \in [1..n_polygon_points -> DrawCoords] :
         \E order \in AngleOrders(zz) :
            /\ z' = zz
            /\ polygon_points' = GeneratePolygonPoints(zz, order)
    /\ stage' = "gen_done"
    /\ UNCHANGED <<n_polygon_points, resVars, fftVars, chainVars, animVars>>

NextGen == CallGeneratePolygonPoints

SpecGen == InitGen /\ [][NextGen]_vars

----------------------------------------------------------------------------
(* resample_polygon_points *)

Abs(x) == IF x < 0 THEN -x ELSE x

\* np.abs(d) for a difference d along one axis
AxisDist(d) == Abs(Re(d)) + Abs(Im(d))

\* np.concatenate(([0], np.cumsum(dists)))
RECURSIVE CumDists(_, _)
CumDists(pts, j) ==
    IF j = 1 THEN <<0>>
    ELSE LET before == CumDists(pts, j - 1)
         IN  Append(before, before[j - 1] + AxisDist(Sub(pts[j], pts[j - 1])))

\* np.interp's search: the last index j with xp[j] <= x, for x = a / den
LastAtMost(xp, a, den) ==
    Max({j \in 1..Len(xp) : xp[j] * den <= a})

\* np.interp(a / den, xp, fp) * den for 0 <= a / den <= xp[-1], fp integers
Interp(a, den, xp, fp) ==
    LET j == LastAtMost(xp, a, den)
    IN  IF j = Len(xp) \/ xp[j] * den = a THEN fp[j] * den
        ELSE ((fp[j + 1] - fp[j]) * (a - xp[j] * den)) \div (xp[j + 1] - xp[j])
               + fp[j] * den

\* lines 374-382; the samples are numerators over den = max(m - 1, 1)
ResamplePolygonPoints(pts, m) ==
    LET cum   == CumDists(pts, Len(pts))
        total == cum[Len(cum)]
        den   == IF m > 1 THEN m - 1 ELSE 1
        re    == List([j \in 1..Len(pts) |-> Re(pts[j])])
        im    == List([j \in 1..Len(pts) |-> Im(pts[j])])
    IN  Returned(List([i \in 1..m |->
                     Cx(Interp((i - 1) * total, den, cum, re),
                        Interp((i - 1) * total, den, cum, im))]), den)

Steps == {Zero, Cx(1, 0), Cx(-1, 0), Cx(0, 1), Cx(0, -1)}

InitResample ==
    /\ stage = "resample_call"
    /\ \E n \in 2..MaxVerts : \E start \in {Zero, Cx(1, -1)} :
         \E st \in [1..(n - 1) -> Steps] :
            points = [j \in 1..n |-> Add(start, SumSeq(SubSeq(st, 1, j - 1)))]
    /\ n_sample_points \in 2..MaxSamples
    /\ resampled = NotCalled
    /\ n_polygon_points = 0 /\ z = <<>> /\ polygon_points = NotCalled
    /\ idx = <<>> /\ fft_points = <<>> /\ sample_points = <<>> /\ n_fft_points = 0
    /\ radius = <<>> /\ theta = <<>> /\ speed = <<>>
    /\ NoAnim

CallResamplePolygonPoints ==
    /\ stage = "resample_call"
    /\ resampled' = ResamplePolygonPoints(points, n_sample_points)
    /\ stage' = "resample_done"
    /\ UNCHANGED <<points, n_sample_points, genVars, fftVars, chainVars, animVars>>

NextResample == CallResamplePolygonPoints

SpecResample == InitResample /\ [][NextResample]_vars

----------------------------------------------------------------------------
(* Claims about generate_polygon_points and resample_polygon_points *)

GenDone == stage = "gen_done"

\* the vertices before the closing repeat of the first
Vertices == SubSeq(polygon_points.num, 1, n_polygon_points)

C7_SmallCountRejected ==
    (GenDone /\ n_polygon_points < 3) => polygon_points.kind = "raised"

ResampleDone == stage = "resample_done"

\* C8: resampling a polygon of perimeter 0 fails (with DegeneratePolygon) and
\* returns no sample path.  Stated by its weakest part, that the call ends in
\* an exception of whatever name.
C8_ZeroPerimeterRejected ==
    (ResampleDone /\ \A j \in 1..Len(points) : points[j] = points[1]) =>
        resampled.kind = "raised"

====
